---- MODULE Spec2Model ----
(***************************************************************************)
(* Model of the iOS simulator MCP server (src/src/index.ts): the in-memory *)
(* screenshot registry, the resources published for it, and the five tool  *)
(* handlers with their suspension at the external command.                 *)
(*                                                                         *)
(* Strings that take part in keys, URIs, paths and parsed output are       *)
(* sequences of one-character strings, so that concatenation, joining and  *)
(* splitting are computed; the fixed prefixes of response messages are     *)
(* kept as the literal segments of their template.                         *)
(***************************************************************************)
EXTENDS Integers, Sequences, FiniteSets, TLC

VARIABLES screenshots, resources, files, dirs, inflight, last, nreq

vars == <<screenshots, resources, files, dirs, inflight, last, nreq>>

(* ------------------------------ bounds --------------------------------- *)
\* total number of requests (tool invocations and resource reads) dispatched
MaxRequests == 3
\* number of tool invocations suspended at their external command at once
MaxInflight == 2
\* number of lines in an output of the device listing that is parsed
MaxLines == 3

(* --------------------------- string helpers ---------------------------- *)
\* "undefined" for an optional argument that was not given
Undefined == <<"undefined">>

NL == "\n"

\* Array.prototype.join(sep) on an array of strings
RECURSIVE Join(_, _)
Join(arr, sep) ==
  IF Len(arr) = 0 THEN <<>>
  ELSE IF Len(arr) = 1 THEN arr[1]
  ELSE arr[1] \o <<sep>> \o Join(Tail(arr), sep)

\* String.prototype.split(sep) for a one-character separator
RECURSIVE SplitFrom(_, _, _)
SplitFrom(s, sep, cur) ==
  IF Len(s) = 0 THEN <<cur>>
  ELSE IF s[1] = sep THEN <<cur>> \o SplitFrom(Tail(s), sep, <<>>)
  ELSE SplitFrom(Tail(s), sep, Append(cur, s[1]))

Split(s, sep) == SplitFrom(s, sep, <<>>)

\* String.prototype.includes(sub)
Includes(s, sub) ==
  \E i \in 1..(Len(s) - Len(sub) + 1) : SubSeq(s, i, i + Len(sub) - 1) = sub

Whitespace == {" ", "\t", NL}

\* String.prototype.trim()
RECURSIVE TrimLeft(_)
TrimLeft(s) ==
  IF Len(s) > 0 /\ s[1] \in Whitespace THEN TrimLeft(Tail(s)) ELSE s

RECURSIVE TrimRight(_)
TrimRight(s) ==
  IF Len(s) > 0 /\ s[Len(s)] \in Whitespace
  THEN TrimRight(SubSeq(s, 1, Len(s) - 1)) ELSE s

Trim(s) == TrimRight(TrimLeft(s))

Digits == <<"0", "1", "2", "3", "4", "5", "6", "7", "8", "9">>

\* decimal rendering of a non-negative number inside a template literal
RECURSIVE DecimalString(_)
DecimalString(n) ==
  IF n < 10 THEN <<Digits[n + 1]>>
  ELSE DecimalString(n \div 10) \o <<Digits[(n % 10) + 1]>>

ScreenshotScheme == <<"s", "c", "r", "e", "e", "n", "s", "h", "o", "t", ":", "/", "/">>

ScreenshotPrefix == <<"s", "c", "r", "e", "e", "n", "s", "h", "o", "t", "-">>

PngSuffix == <<".", "p", "n", "g">>

BootedMarker == <<"B", "o", "o", "t", "e", "d">>

ListName == <<"l", "i", "s", "t">>

(* ------------------------------ encoding ------------------------------- *)
Base64Alphabet ==
  <<"A", "B", "C", "D", "E", "F", "G", "H", "I", "J", "K", "L", "M", "N", "O", "P">>
  \o <<"Q", "R", "S", "T", "U", "V", "W", "X", "Y", "Z", "a", "b", "c", "d", "e", "f">>
  \o <<"g", "h", "i", "j", "k", "l", "m", "n", "o", "p", "q", "r", "s", "t", "u", "v">>
  \o <<"w", "x", "y", "z", "0", "1", "2", "3", "4", "5", "6", "7", "8", "9", "+", "/">>

Sextet(n) == Base64Alphabet[n + 1]

\* Buffer.toString("base64"): three bytes to four characters, "=" padding
RECURSIVE Base64(_)
Base64(bytes) ==
  IF Len(bytes) = 0 THEN <<>>
  ELSE IF Len(bytes) = 1 THEN
    LET n == bytes[1] * 16
    IN  <<Sextet(n \div 64), Sextet(n % 64), "=", "=">>
  ELSE IF Len(bytes) = 2 THEN
    LET n == (bytes[1] * 256 + bytes[2]) * 4
    IN  <<Sextet(n \div 4096), Sextet((n \div 64) % 64), Sextet(n % 64), "=">>
  ELSE
    LET n == bytes[1] * 65536 + bytes[2] * 256 + bytes[3]
    IN  <<Sextet(n \div 262144), Sextet((n \div 4096) % 64),
          Sextet((n \div 64) % 64), Sextet(n % 64)>>
        \o Base64(SubSeq(bytes, 4, Len(bytes)))

(* -------------------------------- paths -------------------------------- *)
\* the configured screenshot directory (SCREENSHOT_RESOURCE_DIR), absolute
SCREENSHOT_RESOURCE_DIR == <<"/", "s", "h", "o", "t", "s">>

\* the working directory of the server process
Cwd == <<"/", "c", "w", "d">>

\* resolution of "." and ".." over the segments of a path
RECURSIVE NormalizeSegments(_, _)
NormalizeSegments(segs, acc) ==
  IF Len(segs) = 0 THEN acc
  ELSE IF segs[1] = <<>> \/ segs[1] = <<".">> THEN NormalizeSegments(Tail(segs), acc)
  ELSE IF segs[1] = <<".", ".">> THEN
    NormalizeSegments(Tail(segs),
                      IF Len(acc) > 0 THEN SubSeq(acc, 1, Len(acc) - 1) ELSE acc)
  ELSE NormalizeSegments(Tail(segs), Append(acc, segs[1]))

\* path.normalize of an absolute path
NormalizeAbsolute(p) == <<"/">> \o Join(NormalizeSegments(Split(p, "/"), <<>>), "/")

\* path.join(dir, file) for an absolute dir
PathJoin(dir, file) == NormalizeAbsolute(dir \o <<"/">> \o file)

\* path.resolve(p): an absolute path stays, a relative one is taken from Cwd
PathResolve(p) ==
  IF Len(p) > 0 /\ p[1] = "/" THEN NormalizeAbsolute(p)
  ELSE NormalizeAbsolute(Cwd \o <<"/">> \o p)

\* path.dirname of an absolute path
PathDirname(p) ==
  LET segs == NormalizeSegments(Split(p, "/"), <<>>)
  IN  IF Len(segs) <= 1 THEN <<"/">>
      ELSE <<"/">> \o Join(SubSeq(segs, 1, Len(segs) - 1), "/")

(* ------------------------------ registry ------------------------------- *)
\* Map.prototype.keys(): the keys in insertion order
MapKeys(m) == [i \in 1..Len(m) |-> m[i].name]

\* Map.prototype.has
MapHas(m, k) == \E i \in 1..Len(m) : m[i].name = k

\* Map.prototype.set: an existing key keeps its place, a new key goes last
MapSet(m, k, v) ==
  IF MapHas(m, k)
  THEN [i \in 1..Len(m) |-> IF m[i].name = k THEN [name |-> k, data |-> v] ELSE m[i]]
  ELSE Append(m, [name |-> k, data |-> v])

\* a deletion that also loses the entries inserted before the key
RECURSIVE MapDeleteDropsPrefix(_, _)
MapDeleteDropsPrefix(m, k) ==
  IF Len(m) = 0 THEN <<>>
  ELSE IF m[1].name = k THEN Tail(m)
  ELSE MapDeleteDropsPrefix(Tail(m), k)

\* Map.prototype.delete
RECURSIVE MapDelete(_, _)
MapDelete(m, k) ==
  IF Len(m) = 0 THEN <<>>
  ELSE IF m[1].name = k THEN Tail(m)
  ELSE <<m[1]>> \o MapDelete(Tail(m), k)

\* the URI under which a screenshot is published
ScreenshotUri(name) == ScreenshotScheme \o name

ListUri == ScreenshotScheme \o ListName

NoBlob == <<>>

\* a read callback that leaves the blob out of what it returns
BlobHandlerDropsData(data) == [kind |-> "blob", blob |-> NoBlob]

\* the read callback of a per-screenshot resource: it closes over the data
\* that was passed to the registration
BlobHandler(data) == [kind |-> "blob", blob |-> data]

\* the read callback of the aggregate resource
ListHandler == [kind |-> "list", blob |-> NoBlob]

\* server.resource(name, uri, cb): registers cb under uri; a uri that is
\* already registered is refused with an error
ServerResource(res, uri, handler) ==
  IF uri \in DOMAIN res
  THEN [threw |-> TRUE, resources |-> res]
  ELSE [threw |-> FALSE, resources |-> res @@ (uri :> handler)]

\* registerScreenshotResource(name, data): the map is updated first, then the
\* resource is registered
RegisterScreenshotResource(shots, res, name, data) ==
  LET reg == ServerResource(res, ScreenshotUri(name), BlobHandler(data))
  IN  [screenshots |-> MapSet(shots, name, data),
       resources   |-> reg.resources,
       threw       |-> reg.threw]

\* the result of a resources/read request for uri
ReadResource(shots, res, uri) ==
  IF uri \notin DOMAIN res
  THEN [kind |-> "fault", uri |-> uri, mimeType |-> "", text |-> <<>>, blob |-> NoBlob]
  ELSE IF res[uri].kind = "list"
  THEN [kind |-> "contents", uri |-> uri, mimeType |-> "text/plain",
        text |-> Join(MapKeys(shots), NL), blob |-> NoBlob]
  ELSE [kind |-> "contents", uri |-> uri, mimeType |-> "image/png",
        text |-> <<>>, blob |-> res[uri].blob]

(* --------------------------- response values --------------------------- *)
NoError == [template |-> "", args |-> <<>>]

\* a content item {type: "text", text: ...}; the text is a template literal
\* of the source with the values interpolated into it, in order
TextItem(template, args, error) ==
  [type |-> "text", template |-> template, args |-> args, error |-> error,
   data |-> NoBlob, mimeType |-> ""]

\* a content item {type: "image", data, mimeType: "image/png"}
ImageItem(data) ==
  [type |-> "image", template |-> "", args |-> <<>>, error |-> NoError,
   data |-> data, mimeType |-> "image/png"]

NoRead == [kind |-> "none", uri |-> <<>>, mimeType |-> "", text |-> <<>>, blob |-> NoBlob]

\* the value a handler returns
Returned(content) == [kind |-> "result", content |-> content]

\* a fault that leaves the handler instead of a returned value
Escaped == [kind |-> "fault", content |-> <<>>]

\* a catch clause that lets the error go on to the caller
CaughtRethrown(template, error) == Escaped

\* the catch clause of a tool handler: the error becomes a text response
\* `<prefix>${error.message || String(error)}`
Caught(template, error) == Returned(<<TextItem(template, <<>>, error)>>)

\* errors raised inside the handlers
ExecError == [template |-> "Command failed: ${cmd}", args |-> <<>>]

ReadFileError(path) ==
  [template |-> "ENOENT: no such file or directory, open '${path}'", args |-> <<path>>]

MkdirError(dir) ==
  [template |-> "EACCES: permission denied, mkdir '${path}'", args |-> <<dir>>]

AlreadyRegisteredError(uri) ==
  [template |-> "Resource ${uri} is already registered", args |-> <<uri>>]

(* ----------------------- get_booted_sim_id parsing ---------------------- *)
HexDash == {"-", "0", "1", "2", "3", "4", "5", "6", "7", "8", "9",
            "A", "B", "C", "D", "E", "F"}

\* the end of the run of [-0-9A-F] characters that starts at position i
RECURSIVE RunEnd(_, _)
RunEnd(line, i) ==
  IF i <= Len(line) /\ line[i] \in HexDash THEN RunEnd(line, i + 1) ELSE i

\* /\(([-0-9A-F]+)\)/ matches with its "(" at position i
MatchesAt(line, i) ==
  /\ line[i] = "("
  /\ LET j == RunEnd(line, i + 1)
     IN  j > i + 1 /\ j <= Len(line) /\ line[j] = ")"

\* line.match(/\(([-0-9A-F]+)\)/): the leftmost match, or none
HasMatch(line) == \E i \in 1..Len(line) : MatchesAt(line, i)

MatchStart(line) ==
  CHOOSE i \in 1..Len(line) :
    MatchesAt(line, i) /\ \A k \in 1..(i - 1) : ~MatchesAt(line, k)

\* match[1]
MatchGroup(line) ==
  LET i == MatchStart(line) IN SubSeq(line, i + 1, RunEnd(line, i + 1) - 1)

\* line.split("(")[0].trim()
DeviceName(line) == Trim(Split(line, "(")[1])

BootedText == "Booted Simulator: ${deviceName}\nUUID: ${deviceId}"

NoneBootedText == "No booted simulator found."

\* a loop that gives up at the first marker line, with or without an id
RECURSIVE ScanLinesStopsAtMarker(_)
ScanLinesStopsAtMarker(lines) ==
  IF Len(lines) = 0
  THEN Returned(<<TextItem(NoneBootedText, <<>>, NoError)>>)
  ELSE IF Includes(lines[1], BootedMarker)
  THEN IF HasMatch(lines[1])
       THEN Returned(<<TextItem(BootedText,
                                <<DeviceName(lines[1]), MatchGroup(lines[1])>>, NoError)>>)
       ELSE Returned(<<TextItem(NoneBootedText, <<>>, NoError)>>)
  ELSE ScanLinesStopsAtMarker(Tail(lines))

\* the loop over the lines of stdout
RECURSIVE ScanLines(_)
ScanLines(lines) ==
  IF Len(lines) = 0
  THEN Returned(<<TextItem(NoneBootedText, <<>>, NoError)>>)
  ELSE IF Includes(lines[1], BootedMarker) /\ HasMatch(lines[1])
  THEN Returned(<<TextItem(BootedText,
                           <<DeviceName(lines[1]), MatchGroup(lines[1])>>, NoError)>>)
  ELSE ScanLines(Tail(lines))

\* the body of get_booted_sim_id after the listing command has completed
GetBootedSimIdResult(ok, stdout) ==
  IF ok THEN ScanLines(Split(stdout, NL))
  ELSE Caught("Error: ${error.message || String(error)}", ExecError)

\* the body of get_all_simulators after the listing command has completed
GetAllSimulatorsResult(ok, stdout) ==
  IF ok THEN Returned(<<TextItem("${stdout}", <<stdout>>, NoError)>>)
  ELSE Caught("Error: ${error.message || String(error)}", ExecError)

\* the body of boot_simulator after the boot command has completed
BootSimulatorResult(ok, deviceId, stdout) ==
  IF ok
  THEN Returned(<<TextItem("Successfully booted simulator with ID: ${deviceId}\n${stdout}",
                           <<deviceId, stdout>>, NoError)>>)
  ELSE Caught("Error booting simulator: ${error.message || String(error)}", ExecError)

(* ------------------------------- inputs --------------------------------- *)
\* outputs of `xcrun simctl list devices`
ListingTwoBooted == <<"P", " ", "5", " ", "(", "A", "B", "-", "1", ")", " ", "(", "B", "o", "o", "t", "e", "d", ")", "\n", "Q", " ", "(", "C", "D", "-", "2", ")", " ", "(", "B", "o", "o", "t", "e", "d", ")">>

ListingNoneBooted == <<"P", " ", "(", "A", "B", "-", "1", ")", " ", "(", "S", "h", "u", "t", "d", "o", "w", "n", ")">>

ListingSkippedLine == <<"B", "o", "o", "t", "e", "d", ":", "\n", "Q", " ", "(", "2", "n", "d", ")", " ", "(", "C", "D", "-", "2", ")", " ", "(", "B", "o", "o", "t", "e", "d", ")">>

Listings == {ListingTwoBooted, ListingNoneBooted, ListingSkippedLine}

\* lines of such an output: booted devices, a device that is shut down, a
\* marker line without any group, a device whose name has a parenthesis
\* group of its own, an empty line, an id in lower case
LineBootedP == <<"P", " ", "(", "A", "-", "1", ")", " ", "(", "B", "o", "o", "t", "e", "d", ")">>

LineBootedQ == <<"Q", " ", "(", "C", "-", "2", ")", " ", "(", "B", "o", "o", "t", "e", "d", ")">>

LineShutdown == <<"P", " ", "(", "A", "-", "1", ")", " ", "(", "S", "h", "u", "t", "d", "o", "w", "n", ")">>

LineMarkerOnly == <<"B", "o", "o", "t", "e", "d", ":">>

LineNameGroup == <<"S", " ", "(", "3", "r", "d", ")", " ", "(", "E", "-", "3", ")", " ", "(", "B", "o", "o", "t", "e", "d", ")">>

LineEmpty == <<>>

LineLowerCase == <<"T", " ", "(", "a", "-", "1", ")", " ", "(", "B", "o", "o", "t", "e", "d", ")">>

ParseLines ==
  {LineBootedP, LineBootedQ, LineShutdown, LineMarkerOnly, LineNameGroup, LineEmpty,
   LineLowerCase}

\* the outputs of up to MaxLines such lines
ParseOutputs ==
  {Join(ls, NL) : ls \in UNION {[1..k -> ParseLines] : k \in 0..MaxLines}}

\* a device the simulator runtime knows, and one it does not
KnownDevice == <<"A", "B", "-", "1">>

UnknownDevice == <<"Z", "Z">>

Devices == {KnownDevice, UnknownDevice}

\* contents the capture command writes to the output file
Captures == {<<137, 80>>, <<255>>}

NameA == <<"a">>

NameWithNewline == <<"a", NL, "b">>

EmptyString == <<>>

\* values of the optional `name` argument of take_screenshot
NameArgs == {Undefined, EmptyString, NameA, NameWithNewline, ListName}

ExplicitPath == <<"/", "t", "/", "o", ".", "p", "n", "g">>

\* values of the optional `outputPath` argument of take_screenshot
PathArgs == {Undefined, ExplicitPath}

\* values Date.now() returns (milliseconds of the wall clock)
Timestamps == {7, 12}

\* the names take_screenshot derives from the clock
TimestampName(t) == ScreenshotPrefix \o DecimalString(t)

\* names a delete_screenshot or a resource read may ask for
KnownNames ==
  {EmptyString, NameA, NameWithNewline, ListName}
    \cup {TimestampName(t) : t \in Timestamps}

(* ------------------------------- handlers ------------------------------- *)
\* a name derivation that replaces only a missing name (name ?? ...)
ScreenshotNameNullish(name, t) ==
  IF name = Undefined THEN TimestampName(t) ELSE name

\* const screenshotName = name || `screenshot-${Date.now()}`
ScreenshotName(name, t) ==
  IF name = Undefined \/ name = EmptyString THEN TimestampName(t) ELSE name

\* a path derivation that ignores the outputPath argument
ActualPathIgnoresOutputPath(outputPath, screenshotName) ==
  PathJoin(SCREENSHOT_RESOURCE_DIR, screenshotName \o PngSuffix)

\* const actualPath = outputPath || path.join(SCREENSHOT_RESOURCE_DIR, `${screenshotName}.png`)
ActualPath(outputPath, screenshotName) ==
  IF outputPath = Undefined \/ outputPath = EmptyString
  THEN PathJoin(SCREENSHOT_RESOURCE_DIR, screenshotName \o PngSuffix)
  ELSE outputPath

TakeScreenshotErrorTemplate == "Error taking screenshot: ${error.message || String(error)}"

\* take_screenshot leaves through its catch clause: nothing more is done
CaptureFailed(shots, res, error) ==
  [screenshots |-> shots, resources |-> res,
   ret |-> Caught(TakeScreenshotErrorTemplate, error)]

\* take_screenshot from the registration of base64Data to its return
CaptureRegistered(shots, res, r, base64Data) ==
  LET reg == RegisterScreenshotResource(shots, res, r.name, base64Data)
  IN  IF reg.threw
      THEN CaptureFailed(reg.screenshots, reg.resources,
                         AlreadyRegisteredError(ScreenshotUri(r.name)))
      ELSE [screenshots |-> reg.screenshots, resources |-> reg.resources,
            ret |-> Returned(
              <<TextItem("Screenshot saved to: ${absolutePath}\nAccessible as resource: screenshot://${screenshotName}",
                         <<PathResolve(r.path), r.name>>, NoError),
                ImageItem(base64Data)>>)]

\* a read-back that yields an empty buffer for a missing file instead of
\* failing
TakeScreenshotAfterExecEmptyRead(shots, res, fs, r) ==
  IF r.exit # "ok" THEN CaptureFailed(shots, res, ExecError)
  ELSE IF r.path \notin DOMAIN fs THEN CaptureRegistered(shots, res, r, Base64(<<>>))
  ELSE CaptureRegistered(shots, res, r, Base64(fs[r.path]))

\* take_screenshot from the completion of the capture command to its return:
\* the read-back, the encoding, the registration and the response
TakeScreenshotAfterExec(shots, res, fs, r) ==
  IF r.exit # "ok" THEN CaptureFailed(shots, res, ExecError)
  ELSE IF r.path \notin DOMAIN fs THEN CaptureFailed(shots, res, ReadFileError(r.path))
  ELSE CaptureRegistered(shots, res, r, Base64(fs[r.path]))

\* the body of delete_screenshot
DeleteScreenshotBody(shots, name) ==
  IF MapHas(shots, name)
  THEN [screenshots |-> MapDelete(shots, name),
        ret |-> Returned(<<TextItem("Successfully deleted screenshot: ${name}",
                                    <<name>>, NoError)>>)]
  ELSE [screenshots |-> shots,
        ret |-> Returned(<<TextItem("Screenshot not found: ${name}",
                                    <<name>>, NoError)>>)]

(* -------------------------------- state --------------------------------- *)
NoFiles == [p \in {} |-> <<>>]

NoResponse ==
  [tool |-> "", kind |-> "none", content |-> <<>>, read |-> NoRead]

\* a tool invocation suspended at its external command; stdout is what the
\* command has printed once it has exited, hung says that it never exits
Request(id, tool, deviceId, name, path) ==
  [id |-> id, tool |-> tool, deviceId |-> deviceId, name |-> name, path |-> path,
   pc |-> "exec", exit |-> "none", stdout |-> <<>>, hung |-> FALSE]

\* the value a tool handler returned is delivered to the client
Respond(tool, ret) ==
  last' = [tool |-> tool, kind |-> ret.kind, content |-> ret.content,
           read |-> NoRead]

CanDispatch == nreq < MaxRequests

CanSuspend == Cardinality(inflight) < MaxInflight

\* module initialisation: the screenshot directory is created, the registry
\* is empty and only the aggregate resource is registered
Init ==
  /\ screenshots = <<>>
  /\ resources = (ListUri :> ListHandler)
  /\ files = NoFiles
  /\ dirs = {SCREENSHOT_RESOURCE_DIR}
  /\ inflight = {}
  /\ last = NoResponse
  /\ nreq = 0

(* ------------------------------- actions -------------------------------- *)
\* take_screenshot up to its await (t is what Date.now() returns): name and
\* path are derived, the directory
\* is ensured, the capture command is started
TakeScreenshotStart(deviceId, name, outputPath, t, mkdirOk) ==
  LET screenshotName == ScreenshotName(name, t)
      actualPath     == ActualPath(outputPath, screenshotName)
      directory      == PathDirname(actualPath)
  IN  /\ CanDispatch
      /\ nreq' = nreq + 1
      /\ IF directory \notin dirs /\ ~mkdirOk
         THEN /\ Respond("take_screenshot",
                         Caught(TakeScreenshotErrorTemplate, MkdirError(directory)))
              /\ UNCHANGED <<dirs, inflight>>
         ELSE /\ CanSuspend
              /\ dirs' = dirs \cup {directory}
              /\ inflight' = inflight \cup
                   {Request(nreq + 1, "take_screenshot", deviceId, screenshotName, actualPath)}
              /\ UNCHANGED last
      /\ UNCHANGED <<screenshots, resources, files>>

\* the capture command exits with an error
SimctlScreenshotFails(r) ==
  /\ r.tool = "take_screenshot" /\ r.pc = "exec" /\ ~r.hung
  /\ inflight' = (inflight \ {r}) \cup {[r EXCEPT !.pc = "exited", !.exit = "fail"]}
  /\ UNCHANGED <<screenshots, resources, files, dirs, last, nreq>>

\* the capture command writes the image to the output path and exits
SimctlScreenshotWrites(r, bytes) ==
  /\ r.tool = "take_screenshot" /\ r.pc = "exec" /\ ~r.hung
  /\ r.deviceId = KnownDevice
  /\ PathDirname(r.path) \in dirs
  /\ files' = [p \in DOMAIN files \cup {r.path} |-> IF p = r.path THEN bytes ELSE files[p]]
  /\ inflight' = (inflight \ {r}) \cup {[r EXCEPT !.pc = "exited", !.exit = "ok"]}
  /\ UNCHANGED <<screenshots, resources, dirs, last, nreq>>

\* take_screenshot resumes after its await and returns
TakeScreenshotResume(r) ==
  /\ r.tool = "take_screenshot" /\ r.pc = "exited"
  /\ LET out == TakeScreenshotAfterExec(screenshots, resources, files, r)
     IN  /\ screenshots' = out.screenshots
         /\ resources' = out.resources
         /\ Respond("take_screenshot", out.ret)
  /\ inflight' = inflight \ {r}
  /\ UNCHANGED <<files, dirs, nreq>>

\* a delete_screenshot that also unlinks the default file of the name
DeleteScreenshotUnlinks(name) ==
  /\ CanDispatch
  /\ nreq' = nreq + 1
  /\ LET out == DeleteScreenshotBody(screenshots, name)
     IN  /\ screenshots' = out.screenshots
         /\ Respond("delete_screenshot", out.ret)
  /\ files' = [p \in DOMAIN files \ {PathJoin(SCREENSHOT_RESOURCE_DIR, name \o PngSuffix)}
                 |-> files[p]]
  /\ UNCHANGED <<resources, dirs, inflight>>

\* delete_screenshot: it has no await and runs to its return
DeleteScreenshot(name) ==
  /\ CanDispatch
  /\ nreq' = nreq + 1
  /\ LET out == DeleteScreenshotBody(screenshots, name)
     IN  /\ screenshots' = out.screenshots
         /\ Respond("delete_screenshot", out.ret)
  /\ UNCHANGED <<resources, files, dirs, inflight>>

\* a tool that only runs a command is invoked: get_booted_sim_id,
\* get_all_simulators (no arguments) or boot_simulator (deviceId)
CommandToolStart(tool, deviceId) ==
  /\ CanDispatch /\ CanSuspend
  /\ nreq' = nreq + 1
  /\ inflight' = inflight \cup {Request(nreq + 1, tool, deviceId, <<>>, <<>>)}
  /\ UNCHANGED <<screenshots, resources, files, dirs, last>>

\* get_booted_sim_id resumes when `xcrun simctl list devices` has completed
GetBootedSimIdResume(r, ok, stdout) ==
  /\ r.tool = "get_booted_sim_id" /\ r.pc = "exec" /\ ~r.hung
  /\ Respond(r.tool, GetBootedSimIdResult(ok, stdout))
  /\ inflight' = inflight \ {r}
  /\ UNCHANGED <<screenshots, resources, files, dirs, nreq>>

\* `xcrun simctl list devices` exits and its output is kept for the handler
SimctlListExits(r, ok, stdout) ==
  /\ r.tool = "get_booted_sim_id" /\ r.pc = "exec" /\ ~r.hung
  /\ inflight' = (inflight \ {r}) \cup
       {[r EXCEPT !.pc = "exited", !.exit = IF ok THEN "ok" ELSE "fail",
                  !.stdout = IF ok THEN stdout ELSE <<>>]}
  /\ UNCHANGED <<screenshots, resources, files, dirs, last, nreq>>

\* get_booted_sim_id resumes with the output its command has left
GetBootedSimIdReturns(r) ==
  /\ r.tool = "get_booted_sim_id" /\ r.pc = "exited"
  /\ Respond(r.tool, GetBootedSimIdResult(r.exit = "ok", r.stdout))
  /\ inflight' = inflight \ {r}
  /\ UNCHANGED <<screenshots, resources, files, dirs, nreq>>

\* get_all_simulators resumes when `xcrun simctl list devices` has completed
GetAllSimulatorsResume(r, ok, stdout) ==
  /\ r.tool = "get_all_simulators" /\ r.pc = "exec" /\ ~r.hung
  /\ Respond(r.tool, GetAllSimulatorsResult(ok, stdout))
  /\ inflight' = inflight \ {r}
  /\ UNCHANGED <<screenshots, resources, files, dirs, nreq>>

\* a boot_simulator whose response waits for the requests dispatched before it
BootSimulatorResumeInOrder(r, ok) ==
  /\ r.tool = "boot_simulator" /\ r.pc = "exec" /\ ~r.hung
  /\ \A q \in inflight : q.id >= r.id
  /\ ok => r.deviceId = KnownDevice
  /\ Respond(r.tool, BootSimulatorResult(ok, r.deviceId, <<>>))
  /\ inflight' = inflight \ {r}
  /\ UNCHANGED <<screenshots, resources, files, dirs, nreq>>

\* boot_simulator resumes when `xcrun simctl boot <deviceId>` has completed;
\* the command fails for a device the runtime does not know
BootSimulatorResume(r, ok) ==
  /\ r.tool = "boot_simulator" /\ r.pc = "exec" /\ ~r.hung
  /\ ok => r.deviceId = KnownDevice
  /\ Respond(r.tool, BootSimulatorResult(ok, r.deviceId, <<>>))
  /\ inflight' = inflight \ {r}
  /\ UNCHANGED <<screenshots, resources, files, dirs, nreq>>

\* a resources/read request for uri
ReadResourceRequest(uri) ==
  /\ CanDispatch
  /\ nreq' = nreq + 1
  /\ last' = [tool |-> "resources/read",
              kind |-> ReadResource(screenshots, resources, uri).kind,
              content |-> <<>>,
              read |-> ReadResource(screenshots, resources, uri)]
  /\ UNCHANGED <<screenshots, resources, files, dirs, inflight>>

\* something outside the server removes a file
FileRemoved(p) ==
  /\ p \in DOMAIN files
  /\ files' = [q \in DOMAIN files \ {p} |-> files[q]]
  /\ UNCHANGED <<screenshots, resources, dirs, inflight, last, nreq>>

\* something outside the server overwrites a file
FileChanged(p, bytes) ==
  /\ p \in DOMAIN files
  /\ files[p] # bytes
  /\ files' = [files EXCEPT ![p] = bytes]
  /\ UNCHANGED <<screenshots, resources, dirs, inflight, last, nreq>>

\* the requests that touch the registry, for the given argument values
RegistryStep(devices, nameArgs, pathArgs, stamps, asked) ==
  \/ \E d \in devices, n \in nameArgs, o \in pathArgs, t \in stamps, m \in BOOLEAN :
       TakeScreenshotStart(d, n, o, t, m)
  \/ \E r \in inflight : SimctlScreenshotFails(r)
  \/ \E r \in inflight, b \in Captures : SimctlScreenshotWrites(r, b)
  \/ \E r \in inflight : TakeScreenshotResume(r)
  \/ \E n \in asked : DeleteScreenshot(n)
  \/ \E n \in asked : ReadResourceRequest(ScreenshotUri(n))

\* the tools that only run a command
CommandStep ==
  \/ \E t \in {"get_booted_sim_id", "get_all_simulators"} : CommandToolStart(t, <<>>)
  \/ \E d \in Devices : CommandToolStart("boot_simulator", d)
  \/ \E r \in inflight, ok \in BOOLEAN, s \in Listings : GetBootedSimIdResume(r, ok, s)
  \/ \E r \in inflight, ok \in BOOLEAN, s \in Listings : GetAllSimulatorsResume(r, ok, s)
  \/ \E r \in inflight, ok \in BOOLEAN : BootSimulatorResume(r, ok)

\* what happens to the files outside the server
FileStep ==
  \/ \E p \in DOMAIN files : FileRemoved(p)
  \/ \E p \in DOMAIN files, b \in Captures : FileChanged(p, b)

\* the registry under captures, deletions and reads of several names
Next ==
  \/ RegistryStep({KnownDevice}, {Undefined, NameA, NameWithNewline}, {Undefined},
                  {7}, {NameA, NameWithNewline, TimestampName(7), ListName})

Spec == Init /\ [][Next]_vars

\* captures on a known and on an unknown device, with the files changing
\* outside the server
NextFiles ==
  \/ RegistryStep(Devices, {Undefined, NameA}, {Undefined}, {7}, {NameA})
  \/ FileStep

SpecFiles == Init /\ [][NextFiles]_vars

\* the five tools side by side, with a single screenshot name
NextTools ==
  \/ RegistryStep(Devices, {NameA}, PathArgs, {7}, {NameA})
  \/ CommandStep

SpecTools == Init /\ [][NextTools]_vars

\* a get_booted_sim_id whose command is running
InitParse ==
  /\ screenshots = <<>>
  /\ resources = (ListUri :> ListHandler)
  /\ files = NoFiles
  /\ dirs = {SCREENSHOT_RESOURCE_DIR}
  /\ inflight = {Request(1, "get_booted_sim_id", <<>>, <<>>, <<>>)}
  /\ last = NoResponse
  /\ nreq = 1

\* the parsing of the device listing: the command prints an output, the
\* handler scans it
NextParse ==
  \/ \E r \in inflight, ok \in BOOLEAN, s \in ParseOutputs : SimctlListExits(r, ok, s)
  \/ \E r \in inflight : GetBootedSimIdReturns(r)

SpecParse == InitParse /\ [][NextParse]_vars

\* captures whose name is the empty string or the aggregate's name, at two
\* different times
NextNames ==
  \/ RegistryStep({KnownDevice}, {EmptyString, ListName}, {Undefined},
                  Timestamps, {EmptyString, ListName, TimestampName(7)})

SpecNames == Init /\ [][NextNames]_vars

\* captures with and without a name, with and without an explicit output
\* path, at two different times
NextPaths ==
  \/ \E n \in {Undefined, NameA}, o \in PathArgs, t \in Timestamps :
       TakeScreenshotStart(KnownDevice, n, o, t, TRUE)
  \/ \E r \in inflight : SimctlScreenshotFails(r)
  \/ \E r \in inflight : SimctlScreenshotWrites(r, <<137, 80>>)
  \/ \E r \in inflight : TakeScreenshotResume(r)

SpecPaths == Init /\ [][NextPaths]_vars

\* two take_screenshot requests for one name are suspended at their capture
\* commands
InitConcurrent ==
  /\ screenshots = <<>>
  /\ resources = (ListUri :> ListHandler)
  /\ files = NoFiles
  /\ \E n \in {NameA, TimestampName(7)}, o1 \in PathArgs, o2 \in PathArgs :
       /\ inflight = {Request(1, "take_screenshot", KnownDevice, n, ActualPath(o1, n)),
                      Request(2, "take_screenshot", KnownDevice, n, ActualPath(o2, n))}
       /\ dirs = {SCREENSHOT_RESOURCE_DIR, PathDirname(ActualPath(o1, n)),
                  PathDirname(ActualPath(o2, n))}
  /\ last = NoResponse
  /\ nreq = 2

\* the two captures complete in either order, and the handle is read
NextConcurrent ==
  \/ \E r \in inflight : SimctlScreenshotFails(r)
  \/ \E r \in inflight, b \in Captures : SimctlScreenshotWrites(r, b)
  \/ \E r \in inflight : TakeScreenshotResume(r)
  \/ \E n \in {NameA, TimestampName(7)} : ReadResourceRequest(ScreenshotUri(n))

SpecConcurrent == InitConcurrent /\ [][NextConcurrent]_vars

\* a tool invocation whose external command never completes
InitHang ==
  /\ screenshots = <<>>
  /\ resources = (ListUri :> ListHandler)
  /\ files = NoFiles
  /\ dirs = {SCREENSHOT_RESOURCE_DIR}
  /\ \E q \in {Request(1, "take_screenshot", KnownDevice, NameA, ActualPath(Undefined, NameA)),
                Request(1, "boot_simulator", KnownDevice, <<>>, <<>>)} :
       inflight = {[q EXCEPT !.hung = TRUE]}
  /\ last = NoResponse
  /\ nreq = 1

\* request r completes a step: its command exits or its handler resumes
Completes(r) ==
  \/ SimctlScreenshotFails(r)
  \/ \E b \in Captures : SimctlScreenshotWrites(r, b)
  \/ TakeScreenshotResume(r)
  \/ \E ok \in BOOLEAN : BootSimulatorResume(r, ok)

\* the other requests that are dispatched while the command hangs
NextHang ==
  \/ TakeScreenshotStart(KnownDevice, NameA, Undefined, 7, TRUE)
  \/ CommandToolStart("boot_simulator", KnownDevice)
  \/ DeleteScreenshot(NameA)
  \/ ReadResourceRequest(ScreenshotUri(NameA))
  \/ \E r \in inflight : SimctlScreenshotFails(r)
  \/ \E r \in inflight, b \in Captures : SimctlScreenshotWrites(r, b)
  \/ \E r \in inflight : TakeScreenshotResume(r)
  \/ \E r \in inflight, ok \in BOOLEAN : BootSimulatorResume(r, ok)

\* a command that does not hang exits, and the event loop runs the
\* continuation of a command that has exited
SpecHang ==
  /\ InitHang /\ [][NextHang]_vars
  /\ \A i \in 1..MaxRequests :
       WF_vars(\E r \in inflight : r.id = i /\ Completes(r))

(* ------------------------- observations on states ----------------------- *)
\* what a client reads at screenshot://<name> in the current state
ReadNow(name) == ReadResource(screenshots, resources, ScreenshotUri(name))

\* what a client reads at screenshot://<name> after the step
ReadNext(name) == ReadResource(screenshots', resources', ScreenshotUri(name))

\* the entries of a registry value, without their order
Entries(m) == {m[i] : i \in 1..Len(m)}

\* the success response of take_screenshot: a text item and the image
IsCaptureSuccess(resp) ==
  /\ resp.tool = "take_screenshot" /\ resp.kind = "result"
  /\ Len(resp.content) = 2
  /\ resp.content[1].type = "text" /\ resp.content[2].type = "image"

\* a response made of one text item with the given template
IsText(resp, template) ==
  /\ resp.kind = "result"
  /\ Len(resp.content) = 1
  /\ resp.content[1].type = "text"
  /\ resp.content[1].template = template

\* the text-only error response of take_screenshot
IsCaptureError(resp) ==
  resp.tool = "take_screenshot" /\ IsText(resp, TakeScreenshotErrorTemplate)

\* request r of take_screenshot resumes and its capture can be read back
Registers(r) == r.exit = "ok" /\ r.path \in DOMAIN files

\* the lines of a text: it split at the line feeds (no line for no text)
Lines(text) == IF text = <<>> THEN <<>> ELSE Split(text, NL)

ToolNames ==
  {"get_booted_sim_id", "get_all_simulators", "take_screenshot", "boot_simulator",
   "delete_screenshot"}

\* the file take_screenshot writes for a name when no outputPath is given
DefaultFile(name) == PathJoin(SCREENSHOT_RESOURCE_DIR, name \o PngSuffix)

\* the lines of the output that request r of get_booted_sim_id scans
ScannedLines(r) == Split(r.stdout, NL)

\* a line with the "Booted" marker
HasMarker(line) == Includes(line, BootedMarker)

\* positions i < j of a "(" and a ")" with only hexadecimal digits (upper
\* case) and hyphens, and at least one, between them
IsIdGroup(line, i, j) ==
  /\ i + 1 < j
  /\ line[i] = "(" /\ line[j] = ")"
  /\ \A k \in (i + 1)..(j - 1) : line[k] \in HexDash

IdOfGroup(line, g) == SubSeq(line, g[1] + 1, g[2] - 1)

\* the positions of the "(" characters of a line
OpenParens(line) == {i \in 1..Len(line) : line[i] = "("}

\* the first parenthesis group of a line: from its first "(" to the next ")"
FirstParenGroup(line) ==
  LET i == CHOOSE a \in OpenParens(line) : \A b \in OpenParens(line) : a <= b
      closes == {j \in (i + 1)..Len(line) : line[j] = ")"}
  IN  <<i, IF closes = {} THEN 0 ELSE CHOOSE j \in closes : \A k \in closes : j <= k>>

\* the first parenthesis group of the line is an id
FirstParenGroupIsId(line) ==
  /\ OpenParens(line) # {}
  /\ FirstParenGroup(line)[2] # 0
  /\ IsIdGroup(line, FirstParenGroup(line)[1], FirstParenGroup(line)[2])

\* the text of a line before its first "(", without the blanks around it
TextBeforeParens(line) ==
  IF OpenParens(line) = {} THEN Trim(line)
  ELSE Trim(SubSeq(line, 1, FirstParenGroup(line)[1] - 1))

(* -------------------------------- claims -------------------------------- *)
\* C1: every name present in the registry has a resource handle
\* screenshot://<name>, and reading that handle returns the bytes the
\* registry currently stores for the name.
C1_HandleResolvesCurrentBytes ==
  \A i \in 1..Len(screenshots) :
    /\ ScreenshotUri(screenshots[i].name) \in DOMAIN resources
    /\ ReadNow(screenshots[i].name).kind = "contents"
    /\ ReadNow(screenshots[i].name).blob = screenshots[i].data

\* C2: a capture under a name that is already in the registry succeeds, and
\* afterwards the handle of that name reads the newly captured bytes.
C2_ReRegistrationLastWriteWins ==
  [][\A r \in inflight :
       (TakeScreenshotResume(r) /\ Registers(r) /\ MapHas(screenshots, r.name))
         => /\ IsCaptureSuccess(last')
            /\ DOMAIN resources' = DOMAIN resources
            /\ ReadNext(r.name).blob = Base64(files[r.path])]_vars

\* C3: when take_screenshot returns its success response for bytes b, b is
\* the image of the response and a read of screenshot://<name> right after
\* it returns exactly b as an image/png blob.
C3_SuccessfulCaptureReadsBack ==
  [][\A r \in inflight :
       (TakeScreenshotResume(r) /\ IsCaptureSuccess(last'))
         => /\ Registers(r)
            /\ last'.content[2].data = Base64(files[r.path])
            /\ ReadNext(r.name).kind = "contents"
            /\ ReadNext(r.name).mimeType = "image/png"
            /\ ReadNext(r.name).blob = Base64(files[r.path])]_vars

\* C3 witness: a capture has just succeeded and its handle reads the image
\* that the response carries.
C3_Witness ==
  /\ IsCaptureSuccess(last)
  /\ ReadNow(last.content[1].args[2]).blob = last.content[2].data
  /\ last.content[2].data # NoBlob

\* C4: when the capture command of take_screenshot fails or its file cannot
\* be read back, the response is a text-only error and no step of the
\* request (its start, the command, its return) changes the registry, the
\* handles or the listing.
C4_FailedCaptureLeavesRegistry ==
  [][/\ \A r \in inflight :
          (TakeScreenshotResume(r) /\ ~Registers(r))
            => /\ IsCaptureError(last')
               /\ screenshots' = screenshots
               /\ resources' = resources
               /\ ReadNext(ListName) = ReadNow(ListName)
     /\ (inflight' # inflight /\ Cardinality(inflight') >= Cardinality(inflight))
          => (screenshots' = screenshots /\ resources' = resources)]_vars

\* C4 witness: a capture has failed at the read-back while the registry
\* holds an entry.
C4_Witness ==
  /\ IsCaptureError(last)
  /\ last.content[1].error.template = ReadFileError(<<>>).template
  /\ Len(screenshots) >= 1

\* C5: delete_screenshot of a present name removes that entry and no other
\* and answers 'Successfully deleted'; of an absent name it changes nothing
\* and answers 'Screenshot not found'.
C5_DeleteRemovesExactlyOne ==
  [][\A n \in KnownNames :
       DeleteScreenshot(n)
         => IF MapHas(screenshots, n)
            THEN /\ Entries(screenshots') = {e \in Entries(screenshots) : e.name # n}
                 /\ Len(screenshots') = Len(screenshots) - 1
                 /\ IsText(last', "Successfully deleted screenshot: ${name}")
                 /\ last'.content[1].args = <<n>>
            ELSE /\ screenshots' = screenshots
                 /\ IsText(last', "Screenshot not found: ${name}")
                 /\ last'.content[1].args = <<n>>]_vars

\* C5 witness: a present name has just been deleted and another entry is
\* still in the registry.
C5_Witness ==
  /\ last.tool = "delete_screenshot"
  /\ IsText(last, "Successfully deleted screenshot: ${name}")
  /\ ~MapHas(screenshots, last.content[1].args[1])
  /\ Len(screenshots) >= 1

\* C6: a name that is not in the registry (it was deleted and not registered
\* again) resolves to no image when screenshot://<name> is read.
C6_DeletedNameReadsNothing ==
  \A n \in KnownNames :
    ~MapHas(screenshots, n) => ReadNow(n).mimeType # "image/png"

\* C7: the lines of screenshot://list are exactly the keys of the registry,
\* each once, in insertion order.
C7_ListEnumeratesKeySet ==
  /\ ReadNow(ListName).kind = "contents"
  /\ Lines(ReadNow(ListName).text) = MapKeys(screenshots)

\* C8: a name leaves the registry only in a delete_screenshot of that name
\* and enters it only in a take_screenshot that returns the success response.
C8_TwoStateMachine ==
  [][\A n \in KnownNames :
       /\ (MapHas(screenshots, n) /\ ~MapHas(screenshots', n)) => DeleteScreenshot(n)
       /\ (~MapHas(screenshots, n) /\ MapHas(screenshots', n))
            => /\ \E r \in inflight : r.name = n /\ TakeScreenshotResume(r)
               /\ IsCaptureSuccess(last')]_vars

\* C9: whatever fails inside a tool handler, the response delivered for the
\* tool is a returned value whose content starts with a text item, and an
\* error is reported by a single text item; no fault leaves a handler.
C9_EveryToolResponseWellFormed ==
  last.tool \in ToolNames
    => /\ last.kind = "result"
       /\ Len(last.content) >= 1
       /\ last.content[1].type = "text"
       /\ \A i \in 1..Len(last.content) : last.content[i].type \in {"text", "image"}
       /\ last.content[1].error # NoError => Len(last.content) = 1

\* C9 witness: the registration of the resource failed inside take_screenshot
\* and the failure came back as the text of the response.
C9_Witness ==
  /\ IsCaptureError(last)
  /\ last.content[1].error.template = AlreadyRegisteredError(<<>>).template

C11_FirstQualifyingLineWins ==
  [][\A r \in inflight :
       (GetBootedSimIdReturns(r) /\ r.exit = "ok")
         => LET lines == ScannedLines(r)
                qualifying == {k \in 1..Len(lines) :
                                 HasMarker(lines[k]) /\ HasMatch(lines[k])}
            IN  IF qualifying = {}
                THEN /\ IsText(last', NoneBootedText)
                     /\ last'.content[1].error = NoError
                ELSE LET k == CHOOSE a \in qualifying : \A b \in qualifying : a <= b
                     IN  /\ IsText(last', BootedText)
                         /\ last'.content[1].args
                              = <<DeviceName(lines[k]), MatchGroup(lines[k])>>]_vars

\* C11 witness: the output that is about to be scanned starts with a marker
\* line without an id, and the scan passes over it and answers with the
\* first of the two booted devices that follow.
C11_Witness ==
  \E r \in inflight :
    /\ r.tool = "get_booted_sim_id" /\ r.pc = "exited" /\ r.exit = "ok"
    /\ ScannedLines(r) = <<LineMarkerOnly, LineBootedQ, LineBootedP>>
    /\ GetBootedSimIdResult(TRUE, r.stdout)
         = Returned(<<TextItem(BootedText, <<DeviceName(LineBootedQ),
                                             MatchGroup(LineBootedQ)>>, NoError)>>)

\* C15: the id reported is the run of hexadecimal digits and
\* hyphens in the first parenthesis group of a marker line, the name is the
\* text before that group, and a marker line whose first parenthesis group
\* is no such run is passed over.
C15_IdInFirstParenthesisGroup ==
  [][\A r \in inflight :
       (GetBootedSimIdReturns(r) /\ r.exit = "ok" /\ IsText(last', BootedText))
         => \E k \in 1..Len(ScannedLines(r)) :
              LET line == ScannedLines(r)[k]
              IN  /\ HasMarker(line)
                  /\ FirstParenGroupIsId(line)
                  /\ last'.content[1].args
                       = <<TextBeforeParens(line),
                           IdOfGroup(line, FirstParenGroup(line))>>]_vars

C16_ErrorLeavesRegistryUntouched ==
  [][\A r \in inflight :
       (TakeScreenshotResume(r) /\ IsCaptureError(last'))
         => screenshots' = screenshots]_vars

\* C17: reading screenshot://list always returns the text listing of the
\* registry names, and no registry entry has the uri screenshot://list as
\* its own while that uri resolves to something other than its bytes.
C17_AggregateNeverShadowed ==
  /\ ReadResource(screenshots, resources, ListUri).kind = "contents"
  /\ ReadResource(screenshots, resources, ListUri).mimeType = "text/plain"
  /\ ReadResource(screenshots, resources, ListUri).text = Join(MapKeys(screenshots), NL)
  /\ \A i \in 1..Len(screenshots) :
       ScreenshotUri(screenshots[i].name) = ListUri
         => ReadResource(screenshots, resources, ListUri).blob = screenshots[i].data

\* C18: delete_screenshot leaves the set of published handles unchanged, the
\* set never shrinks, and every name in the registry has a handle that was
\* published for it.
C18_HandlesNeverRetracted ==
  [][/\ \A n \in KnownNames :
          DeleteScreenshot(n) => DOMAIN resources' = DOMAIN resources
     /\ DOMAIN resources \subseteq DOMAIN resources'
     /\ \A i \in 1..Len(screenshots') :
          /\ ScreenshotUri(screenshots'[i].name) \in DOMAIN resources'
          /\ resources'[ScreenshotUri(screenshots'[i].name)].kind = "blob"]_vars

\* C19: the registry never has an entry under the empty string and no handle
\* screenshot:// with an empty name is ever published; a take_screenshot
\* with name "" works under screenshot-<timestamp>.
C19_EmptyNameTreatedAsOmitted ==
  /\ ~MapHas(screenshots, EmptyString)
  /\ ScreenshotUri(EmptyString) \notin DOMAIN resources
  /\ \A r \in inflight : r.name # EmptyString

\* C19 witness: a take_screenshot with name "" (the only way to a
\* timestamp name in SpecNames) has succeeded at time 12 and is registered
\* and published under screenshot-12.
C19_Witness ==
  /\ IsCaptureSuccess(last)
  /\ last.content[1].args[2] = TimestampName(12)
  /\ MapHas(screenshots, TimestampName(12))
  /\ ScreenshotUri(TimestampName(12)) \in DOMAIN resources

\* C13: when two take_screenshot requests for one name are in flight and both
\* capture commands succeed, each of them returns the success response, and
\* when it returns the registry entry and screenshot://<name> hold the bytes
\* it has read back, so that the capture that completes last wins.
C13_ConcurrentCapturesLastWriteWins ==
  [][\A r \in inflight :
       (/\ TakeScreenshotResume(r) /\ r.exit = "ok"
        /\ \A q \in inflight : q.exit # "fail"
        /\ inflight = {r} => MapHas(screenshots, r.name))
         => /\ IsCaptureSuccess(last')
            /\ \E i \in 1..Len(screenshots') :
                 /\ screenshots'[i].name = r.name
                 /\ screenshots'[i].data = Base64(files[r.path])
            /\ ReadNext(r.name).kind = "contents"
            /\ ReadNext(r.name).blob = Base64(files[r.path])]_vars

\* C14: a request whose command hangs stays in flight for ever and gets no
\* response; delete_screenshot and resource reads are never held back by it;
\* every other request in flight eventually gets its response, whatever was
\* dispatched before it.
C14_HungCommandHangsOnlyItsRequest ==
  /\ [][\A r \in inflight : r.hung => r \in inflight']_vars
  /\ [](CanDispatch => /\ ENABLED DeleteScreenshot(NameA)
                       /\ ENABLED ReadResourceRequest(ScreenshotUri(NameA)))
  /\ \A i \in 1..MaxRequests :
       (\E r \in inflight : r.id = i /\ ~r.hung)
         ~> (\A r \in inflight : r.id # i)

\* C14 witness: the first request hangs at its command and a request that
\* was dispatched after it has got its response.
C14_Witness ==
  /\ \E r \in inflight : r.hung /\ r.id = 1 /\ r.tool = "take_screenshot"
  /\ Cardinality(inflight) = 1
  /\ last.tool = "boot_simulator"
  /\ IsText(last, "Successfully booted simulator with ID: ${deviceId}\n${stdout}")

====
